---- MODULE Spec2Model ----
(***************************************************************************)
(* Model of app.py, the Streamlit CSV editor: the CSV codec (load_csv,     *)
(* save_csv), the substring filter (search_data) and the session state     *)
(* that main() keeps in st.session_state.  Text is a sequence of           *)
(* one-character strings; a file is a record [exists, text]; every action  *)
(* is one run of main() triggered by one widget event.                     *)
(***************************************************************************)
EXTENDS Integers, Sequences, FiniteSets, TLC

VARIABLES
    fs,             \* the disk: filename -> [exists, text]
    data,           \* st.session_state.data, the canonical record list
    filtered_data,  \* st.session_state.filtered_data
    aliased,        \* filtered_data is the very list object that data is
    current_line,   \* st.session_state.current_line
    mode,           \* st.session_state.mode
    search_str,     \* st.session_state.search_str
    last_filename,  \* st.session_state.last_filename (the Filename widget)
    msgs,           \* st.error / st.warning / st.success texts of the last run
    submitted,      \* the Key typed into the form submitted in the last run
    faults,         \* the I/O failures the disk has produced so far
    edits           \* the create, update and delete submits accepted so far

vars == <<fs, data, filtered_data, aliased, current_line, mode, search_str,
          last_filename, msgs, submitted, faults, edits>>

----------------------------------------------------------------------------
(* Characters and text *)

QUOTE == "\""
COMMA == ","
HASH == "#"
LF == "\n"
CR == "\r"
\* The end-of-line marker the csv reader feeds its state machine after each line.
EOL == "EOL"

DEFAULT_FILENAME == "timeline.csv"
OTHER_FILENAME == "other.csv"
Filenames == {DEFAULT_FILENAME, OTHER_FILENAME}

FIELDS == <<"key", "value", "tags">>

\* '# ' + ','.join(FIELDS) + '\n'
HeaderLine ==
    <<"#", " ", "k", "e", "y", ",", "v", "a", "l", "u", "e", ",",
      "t", "a", "g", "s", LF>>

Missing == [exists |-> FALSE, text |-> <<>>]
File(t) == [exists |-> TRUE, text |-> t]

Record(k, v, t) == [key |-> k, value |-> v, tags |-> t]

\* F applied to the value of x, x evaluated once (operator arguments and LET
\* definitions are otherwise re-evaluated at every use)
Bind(x, F(_)) == CHOOSE r \in {F(y) : y \in {x}} : TRUE

\* str.lower() on one character
LowerChar(c) == IF c = "A" THEN "a" ELSE IF c = "B" THEN "b" ELSE c
Lower(s) == [i \in 1..Len(s) |-> LowerChar(s[i])]

\* needle in hay
Contains(hay, needle) ==
    \E i \in 0..(Len(hay) - Len(needle)) :
        \A j \in 1..Len(needle) : hay[i + j] = needle[j]

\* str.startswith('#')
StartsWithHash(s) == Len(s) > 0 /\ s[1] = HASH

\* str.strip('"'): drop every leading and trailing quote character
RECURSIVE LStripQuote(_)
LStripQuote(s) ==
    IF s # <<>> /\ Head(s) = QUOTE THEN LStripQuote(Tail(s)) ELSE s
RECURSIVE RStripQuote(_)
RStripQuote(s) ==
    IF s # <<>> /\ s[Len(s)] = QUOTE
    THEN RStripQuote(SubSeq(s, 1, Len(s) - 1)) ELSE s
StripQuote(s) == RStripQuote(LStripQuote(s))

----------------------------------------------------------------------------
(* csv.writer(csvfile, quoting=csv.QUOTE_ALL) *)

RECURSIVE DoubleQuotes(_)
DoubleQuotes(s) ==
    IF s = <<>> THEN <<>>
    ELSE (IF Head(s) = QUOTE THEN <<QUOTE, QUOTE>> ELSE <<Head(s)>>)
         \o DoubleQuotes(Tail(s))

QuoteField(s) == <<QUOTE>> \o DoubleQuotes(s) \o <<QUOTE>>

\* writer.writerow([record[field] for field in FIELDS]), lineterminator '\r\n'
writerow(r) ==
    QuoteField(r.key) \o <<COMMA>> \o QuoteField(r.value) \o <<COMMA>>
    \o QuoteField(r.tags) \o <<CR, LF>>

RECURSIVE WriteRows(_)
WriteRows(recs) ==
    IF recs = <<>> THEN <<>> ELSE writerow(Head(recs)) \o WriteRows(Tail(recs))

\* the text save_csv leaves in the file when nothing fails
SavedText(recs) == HeaderLine \o WriteRows(recs)

----------------------------------------------------------------------------
(* csv.reader(csvfile) over a file opened with newline='' *)

\* File iteration: a line ends after '\n', '\r\n' or a lone '\r', or at end of
\* file.  Does a line end with the character at position i?
EndsLine(text, i) ==
    \/ text[i] = LF
    \/ text[i] = CR /\ ~(i < Len(text) /\ text[i + 1] = LF)
    \/ i = Len(text)

ReaderInit ==
    [state |-> "START_RECORD", field |-> <<>>, fields |-> <<>>, rows |-> <<>>]

\* parse_save_field
SaveField(p, next) ==
    [p EXCEPT !.fields = Append(p.fields, p.field), !.field = <<>>, !.state = next]
\* parse_add_char
AddChar(p, c, next) ==
    [p EXCEPT !.field = Append(p.field, c), !.state = next]

AfterNewline(c) == IF c = EOL THEN "START_RECORD" ELSE "EAT_CRNL"

\* parse_process_char, default dialect (delimiter ',', quotechar '"',
\* doublequote, no escapechar, not strict)
StartField(p, c) ==
    IF c \in {LF, CR, EOL} THEN SaveField(p, AfterNewline(c))
    ELSE IF c = QUOTE THEN [p EXCEPT !.state = "IN_QUOTED_FIELD"]
    ELSE IF c = COMMA THEN SaveField(p, "START_FIELD")
    ELSE AddChar(p, c, "IN_FIELD")

parse_process_char(p, c) ==
    CASE p.state = "START_RECORD" ->
            IF c = EOL THEN p
            ELSE IF c \in {LF, CR} THEN [p EXCEPT !.state = "EAT_CRNL"]
            ELSE StartField(p, c)
      [] p.state = "START_FIELD" -> StartField(p, c)
      [] p.state = "IN_FIELD" ->
            IF c \in {LF, CR, EOL} THEN SaveField(p, AfterNewline(c))
            ELSE IF c = COMMA THEN SaveField(p, "START_FIELD")
            ELSE AddChar(p, c, "IN_FIELD")
      [] p.state = "IN_QUOTED_FIELD" ->
            IF c = EOL THEN p
            ELSE IF c = QUOTE THEN [p EXCEPT !.state = "QUOTE_IN_QUOTED_FIELD"]
            ELSE AddChar(p, c, "IN_QUOTED_FIELD")
      [] p.state = "QUOTE_IN_QUOTED_FIELD" ->
            IF c = QUOTE THEN AddChar(p, c, "IN_QUOTED_FIELD")
            ELSE IF c = COMMA THEN SaveField(p, "START_FIELD")
            ELSE IF c \in {LF, CR, EOL} THEN SaveField(p, AfterNewline(c))
            ELSE AddChar(p, c, "IN_FIELD")
      [] OTHER ->   \* EAT_CRNL
            IF c = EOL THEN [p EXCEPT !.state = "START_RECORD"] ELSE p

\* Reader_iternext: after the characters of a line the machine is fed EOL, and
\* the row is returned when that leaves it in START_RECORD.
EndLine(p) ==
    Bind(parse_process_char(p, EOL), LAMBDA q :
        IF q.state = "START_RECORD"
        THEN [q EXCEPT !.rows = Append(q.rows, q.fields), !.fields = <<>>]
        ELSE q)

ReaderStep(p, text, i) ==
    Bind(parse_process_char(p, text[i]), LAMBDA q :
        IF EndsLine(text, i) THEN EndLine(q) ELSE q)

\* the machine after the characters lo..hi of the text
RECURSIVE ReaderFold(_, _, _, _)
ReaderFold(p, text, lo, hi) ==
    IF lo > hi THEN p
    ELSE IF lo = hi THEN ReaderStep(p, text, lo)
    ELSE Bind(ReaderFold(p, text, lo, (lo + hi) \div 2), LAMBDA q :
            ReaderFold(q, text, ((lo + hi) \div 2) + 1, hi))

\* list(csv.reader(f)): at end of input an unterminated quoted field is saved
\* and its row returned.
ReaderRows(text) ==
    Bind(text, LAMBDA t :
        Bind(ReaderFold(ReaderInit, t, 1, Len(t)), LAMBDA p :
            IF p.state = "IN_QUOTED_FIELD"
            THEN Append(p.rows, Append(p.fields, p.field))
            ELSE p.rows))

----------------------------------------------------------------------------
(* load_csv, save_csv, search_data *)

E_LOAD == "Error loading CSV"
E_SAVE == "Error saving CSV"
W_MALFORMED == "Skipping malformed row"
E_EMPTY == "Key cannot be empty."
E_UNIQUE == "Key must be unique."

\* What an I/O operation can meet: nothing, or an exception.  A failing save
\* either fails in open() (file untouched) or after open() truncated the file
\* and before the buffered text reached it (file left empty).
LoadErrs == {"none", "io"}
SaveErrs == {"none", "open", "write"}

\* is the row kept as a record: a non-empty row that is not a comment
IsDataRow(row) == row # <<>> /\ ~StartsWithHash(row[1])
\* has the row enough columns
HasColumns(row) == Len(row) >= 3
\* {FIELDS[i]: row[i].strip('"') for i in range(3)}
RowRecord(row) ==
    Record(StripQuote(row[1]), StripQuote(row[2]), StripQuote(row[3]))

\* the loop of load_csv over the reader's rows: the records appended
RowsData(rows) ==
    Bind(SelectSeq(rows, LAMBDA row : IsDataRow(row) /\ HasColumns(row)),
         LAMBDA kept : [i \in 1..Len(kept) |-> RowRecord(kept[i])])

\* the loop of load_csv over the reader's rows: the rows warned about
RowsWarned(rows) ==
    SelectSeq(rows, LAMBDA row : IsDataRow(row) /\ ~HasColumns(row))

\* the with-block of load_csv: the file exists and is read to its end
load_rows(fsys, filename) ==
    Bind(ReaderRows(fsys[filename].text), LAMBDA rows :
        [data |-> RowsData(rows), fs |-> fsys,
         msgs |-> IF RowsWarned(rows) # <<>> THEN {W_MALFORMED} ELSE {},
         warned |-> RowsWarned(rows)])

\* load_csv with the bootstrap left out: a missing file is an error like any
\* other, and no file is created
load_csv_no_bootstrap(fsys, filename, err) ==
    IF err # "none" \/ ~fsys[filename].exists
    THEN [data |-> <<>>, fs |-> fsys, msgs |-> {E_LOAD}, warned |-> <<>>]
    ELSE load_rows(fsys, filename)

\* load_csv(filename) on disk fsys; err is what the I/O meets
load_csv(fsys, filename, err) ==
    IF err # "none"
    THEN [data |-> <<>>, fs |-> fsys, msgs |-> {E_LOAD}, warned |-> <<>>]
    ELSE IF ~fsys[filename].exists
    THEN [data |-> <<>>, fs |-> [fsys EXCEPT ![filename] = File(HeaderLine)],
          msgs |-> {}, warned |-> <<>>]
    ELSE load_rows(fsys, filename)

\* save_csv opening the file with mode 'a': the text is added to the file
save_csv_append(fsys, filename, recs, err) ==
    IF err = "none"
    THEN [fs |-> [fsys EXCEPT ![filename] =
                    File(fsys[filename].text \o SavedText(recs))],
          msgs |-> {}]
    ELSE [fs |-> fsys, msgs |-> {E_SAVE}]

\* save_csv(filename, data) on disk fsys; the exception is caught and reported
save_csv(fsys, filename, recs, err) ==
    IF err = "none"
    THEN [fs |-> [fsys EXCEPT ![filename] = File(SavedText(recs))], msgs |-> {}]
    ELSE IF err = "open"
    THEN [fs |-> fsys, msgs |-> {E_SAVE}]
    ELSE [fs |-> [fsys EXCEPT ![filename] = File(<<>>)], msgs |-> {E_SAVE}]

\* the match of search_data without field.lower(): a case-sensitive match
MatchesCaseSensitive(r, term) ==
    \/ Contains(r.key, term)
    \/ Contains(r.value, term)
    \/ Contains(r.tags, term)

\* any(search_str in field.lower() for field in record.values())
Matches(r, term) ==
    \/ Contains(Lower(r.key), term)
    \/ Contains(Lower(r.value), term)
    \/ Contains(Lower(r.tags), term)

\* search_data returning the matching records last to first
search_data_reversed(recs, term) ==
    IF term = <<>> THEN recs
    ELSE Bind(SelectSeq(recs, LAMBDA r : Matches(r, Lower(term))), LAMBDA found :
            [i \in 1..Len(found) |-> found[Len(found) + 1 - i]])

search_data(recs, term) ==
    IF term = <<>> THEN recs
    ELSE SelectSeq(recs, LAMBDA r : Matches(r, Lower(term)))

Keys(recs) == {recs[i].key : i \in 1..Len(recs)}

\* 0 if the list is non-empty else -1
FirstOrNone(recs) == IF recs # <<>> THEN 0 ELSE -1

Min(a, b) == IF a <= b THEN a ELSE b

----------------------------------------------------------------------------
(* Bounds and inputs *)

\* the user has at most this many create, update and delete submits accepted
MaxEdits == 1
\* the disk fails at most this many times in a session
MaxFaults == 1

KA == <<"a">>
KB == <<"b">>
KBQ == <<"b", QUOTE>>

\* what the user can type into the create and update forms
FormInputs ==
    { Record(<<>>, <<>>, <<>>),
      Record(KA, <<>>, <<>>),
      Record(KBQ, <<>>, <<>>) }

\* what the user can type into the Search box
SearchInputs == { <<>>, <<"A">> }

\* the files the default path may hold when the session starts
InitFiles ==
    { File(SavedText(<<Record(KA, <<>>, <<>>), Record(KB, <<>>, <<>>)>>)),
      File(SavedText(<<Record(KA, <<>>, <<>>), Record(KA, KB, <<>>)>>)) }

\* the files the other path may hold when the session starts
InitOtherFiles == { Missing }

----------------------------------------------------------------------------
(* The session: one action per run of main() *)

READ == "read/search"
Modes == {READ, "create", "update", "delete"}

\* an accepted create, update or delete: the user edits only within the budget
Edit ==
    /\ edits < MaxEdits
    /\ edits' = edits + 1

\* an I/O operation meeting err: the disk may fail only within its budget
Fault(err) ==
    /\ err # "none" => faults < MaxFaults
    /\ faults' = IF err # "none" THEN faults + 1 ELSE faults

\* The first run: session_state is empty, so data is loaded from
\* DEFAULT_FILENAME, and loaded again because last_filename is unset.
Init ==
    \E f0 \in InitFiles, f1 \in InitOtherFiles :
        LET fs0 == [n \in Filenames |-> IF n = DEFAULT_FILENAME THEN f0 ELSE f1]
            r1 == load_csv(fs0, DEFAULT_FILENAME, "none")
            r2 == load_csv(r1.fs, DEFAULT_FILENAME, "none")
        IN  /\ fs = r2.fs
            /\ data = r2.data
            /\ filtered_data = r2.data
            /\ aliased = TRUE
            /\ current_line = FirstOrNone(r2.data)
            /\ mode = READ
            /\ search_str = <<>>
            /\ last_filename = DEFAULT_FILENAME
            /\ msgs = r1.msgs \cup r2.msgs
            /\ submitted = <<>>
            /\ faults = 0
            /\ edits = 0

\* the CURRENT_RECORD section indexes filtered_data[current_line] in every
\* mode but create; an index past the end raises and ends the run there
RenderOk ==
    mode = "create" \/ current_line < 0 \/ current_line < Len(filtered_data)

\* Filename widget changed (lines 192-196)
FilenameChange(fn, err) ==
    /\ fn # last_filename
    /\ Fault(err)
    /\ \E r \in {load_csv(fs, fn, err)} :
        /\ fs' = r.fs
        /\ data' = r.data
        /\ filtered_data' = r.data
        /\ aliased' = TRUE
        /\ current_line' = FirstOrNone(r.data)
        /\ msgs' = r.msgs
    /\ last_filename' = fn
    /\ submitted' = <<>>
    /\ UNCHANGED <<mode, search_str, edits>>

\* Search widget changed (lines 202-206)
SearchChange(s) ==
    /\ s # search_str
    /\ search_str' = s
    /\ \E found \in {search_data(data, s)} :
        /\ filtered_data' = found
        /\ current_line' = FirstOrNone(found)
    /\ aliased' = (s = <<>>)
    /\ msgs' = {}
    /\ submitted' = <<>>
    /\ UNCHANGED <<fs, data, mode, last_filename, faults, edits>>

\* menu buttons (lines 218-238)
SetMode(m) ==
    /\ mode' = m
    /\ msgs' = {}
    /\ submitted' = <<>>
    /\ UNCHANGED <<fs, data, filtered_data, aliased, current_line, search_str,
                   last_filename, faults, edits>>

MenuCreate == SetMode("create")
MenuUpdate == current_line >= 0 /\ SetMode("update")
MenuDelete == current_line >= 0 /\ SetMode("delete")
MenuSearch == SetMode(READ)

\* the Save button without its assignment to the mode
MenuSaveKeepsMode(err) ==
    /\ Fault(err)
    /\ \E r \in {save_csv(fs, last_filename, data, err)} :
        /\ fs' = r.fs
        /\ msgs' = r.msgs \cup {"Saved!"}
    /\ submitted' = <<>>
    /\ UNCHANGED <<data, filtered_data, aliased, current_line, mode, search_str,
                   last_filename, edits>>

\* Save button (lines 229-232)
MenuSave(err) ==
    /\ mode' = READ
    /\ submitted' = <<>>
    /\ Fault(err)
    /\ \E r \in {save_csv(fs, last_filename, data, err)} :
        /\ fs' = r.fs
        /\ msgs' = r.msgs \cup {"Saved!"}
    /\ UNCHANGED <<data, filtered_data, aliased, current_line, search_str,
                   last_filename, edits>>

\* the check of a create submit without its elif: only the empty key is refused
CreateRejectionNoUnique(new_key, recs) ==
    IF new_key = <<>> THEN E_EMPTY ELSE ""

\* the check of a create submit (lines 253-256): the error shown, "" if none
CreateRejection(new_key, recs) ==
    IF new_key = <<>> THEN E_EMPTY
    ELSE IF \E i \in 1..Len(recs) : recs[i].key = new_key THEN E_UNIQUE
    ELSE ""

\* "Add Record" in the create form (lines 252-265)
CreateSubmit(inp, err) ==
    /\ mode = "create"
    /\ submitted' = inp.key
    /\ IF CreateRejection(inp.key, data) # ""
       THEN /\ msgs' = {CreateRejection(inp.key, data)}
            /\ err = "none"
            /\ UNCHANGED <<fs, data, filtered_data, aliased, current_line, mode,
                           search_str, last_filename, faults, edits>>
       ELSE /\ Edit
            /\ Fault(err)
            /\ \E appended \in {Append(data, Record(inp.key, inp.value, inp.tags))} :
                /\ data' = appended
                /\ \E r \in {save_csv(fs, last_filename, appended, err)} :
                    /\ fs' = r.fs
                    /\ msgs' = r.msgs \cup {"Record added."}
                /\ \E found \in {search_data(appended, search_str)} :
                    /\ filtered_data' = found
                    /\ current_line' = FirstOrNone(found)
            /\ aliased' = (search_str = <<>>)
            /\ mode' = READ
            /\ UNCHANGED <<search_str, last_filename>>

\* "Cancel" in the create form (lines 266-268)
CreateCancel ==
    /\ mode = "create"
    /\ SetMode(READ)

\* the update and delete sections run only with a selection, and index it
SelectionShown(m) ==
    /\ mode = m
    /\ current_line >= 0
    /\ current_line < Len(filtered_data)

\* filtered_data[current_line]['key']
SelectedKey == filtered_data[current_line + 1].key

\* the check of an update submit that compares the new key with every record,
\* the selected one included
UpdateRejectionOwnKey(updated_key, original_key, recs) ==
    IF updated_key = <<>> THEN E_EMPTY
    ELSE IF \E i \in 1..Len(recs) : recs[i].key = updated_key THEN E_UNIQUE
    ELSE ""

\* the check of an update submit (lines 281-287): the error shown, "" if none
UpdateRejection(updated_key, original_key, recs) ==
    IF updated_key = <<>> THEN E_EMPTY
    ELSE IF /\ updated_key # original_key
            /\ \E i \in 1..Len(recs) : recs[i].key = updated_key
         THEN E_UNIQUE
    ELSE ""

\* next(i for i, record in enumerate(data) if record['key'] == original_key)
FirstIndex(recs, k) ==
    CHOOSE i \in 1..Len(recs) :
        /\ recs[i].key = k
        /\ \A j \in 1..(i - 1) : recs[j].key # k

\* "Update Record" in the update form (lines 280-298)
UpdateSubmit(inp, err) ==
    /\ SelectionShown("update")
    /\ submitted' = inp.key
    /\ IF UpdateRejection(inp.key, SelectedKey, data) # ""
       THEN /\ msgs' = {UpdateRejection(inp.key, SelectedKey, data)}
            /\ err = "none"
            /\ UNCHANGED <<fs, data, filtered_data, aliased, current_line, mode,
                           search_str, last_filename, faults, edits>>
       ELSE /\ SelectedKey \in Keys(data)
            /\ Edit
            /\ Fault(err)
            /\ \E replaced \in {[data EXCEPT ![FirstIndex(data, SelectedKey)] =
                                      Record(inp.key, inp.value, inp.tags)]} :
                /\ data' = replaced
                /\ \E r \in {save_csv(fs, last_filename, replaced, err)} :
                    /\ fs' = r.fs
                    /\ msgs' = r.msgs \cup {"Record updated."}
                /\ filtered_data' = search_data(replaced, search_str)
            /\ aliased' = (search_str = <<>>)
            /\ mode' = READ
            /\ UNCHANGED <<current_line, search_str, last_filename>>

\* "Cancel" in the update form (lines 299-301)
UpdateCancel ==
    /\ SelectionShown("update")
    /\ SetMode(READ)

\* min(current_line, len(filtered_data) - 1) if filtered_data else -1, where
\* filtered_data is the list the run read at line 208
DeleteCursor(line, shown) ==
    IF shown # <<>> THEN Min(line, Len(shown) - 1) ELSE -1

\* the list the local name filtered_data refers to after data[:] = ... :
\* the list object itself when it is data, the list of line 208 otherwise
ShownAfterDelete(remaining) == IF aliased THEN remaining ELSE filtered_data

\* "Confirm Delete" (lines 307-317)
DeleteConfirm(err) ==
    /\ SelectionShown("delete")
    /\ Edit
    /\ Fault(err)
    /\ \E original_key \in {SelectedKey} :
       \E remaining \in {SelectSeq(data, LAMBDA rec : rec.key # original_key)} :
        /\ data' = remaining
        /\ \E r \in {save_csv(fs, last_filename, remaining, err)} :
            /\ fs' = r.fs
            /\ msgs' = r.msgs \cup {"Record deleted."}
        /\ filtered_data' = search_data(remaining, search_str)
        /\ current_line' = DeleteCursor(current_line, ShownAfterDelete(remaining))
    /\ aliased' = (search_str = <<>>)
    /\ mode' = READ
    /\ submitted' = <<>>
    /\ UNCHANGED <<search_str, last_filename>>

\* "Cancel" in the delete section (lines 318-321)
DeleteCancel ==
    /\ SelectionShown("delete")
    /\ SetMode(READ)

\* navigation buttons (lines 333-348), drawn when the list is not empty
Nav(line) ==
    /\ RenderOk
    /\ filtered_data # <<>>
    /\ current_line' = line
    /\ msgs' = {}
    /\ submitted' = <<>>
    /\ UNCHANGED <<fs, data, filtered_data, aliased, mode, search_str,
                   last_filename, faults, edits>>

Up == current_line > 0 /\ Nav(current_line - 1)
Down == current_line < Len(filtered_data) - 1 /\ Nav(current_line + 1)
Home == current_line > 0 /\ Nav(0)
End == current_line < Len(filtered_data) - 1 /\ Nav(Len(filtered_data) - 1)

\* "Reload" adding the loaded records to the ones held instead of replacing them
ReloadKeeping(err) ==
    /\ RenderOk
    /\ Fault(err)
    /\ \E r \in {load_csv(fs, last_filename, err)} :
        /\ fs' = r.fs
        /\ data' = data \o r.data
        /\ msgs' = r.msgs \cup {"Data reloaded."}
        /\ \E found \in {search_data(data \o r.data, search_str)} :
            /\ filtered_data' = found
            /\ current_line' = FirstOrNone(found)
    /\ aliased' = (search_str = <<>>)
    /\ mode' = READ
    /\ submitted' = <<>>
    /\ UNCHANGED <<search_str, last_filename, edits>>

\* "Reload" (lines 362-369)
Reload(err) ==
    /\ RenderOk
    /\ mode' = READ
    /\ submitted' = <<>>
    /\ aliased' = (search_str = <<>>)
    /\ Fault(err)
    /\ \E r \in {load_csv(fs, last_filename, err)} :
        /\ fs' = r.fs
        /\ data' = r.data
        /\ msgs' = r.msgs \cup {"Data reloaded."}
        /\ \E found \in {search_data(r.data, search_str)} :
            /\ filtered_data' = found
            /\ current_line' = FirstOrNone(found)
    /\ UNCHANGED <<search_str, last_filename, edits>>

Next ==
    \/ \E fn \in Filenames, err \in LoadErrs : FilenameChange(fn, err)
    \/ \E s \in SearchInputs : SearchChange(s)
    \/ MenuCreate
    \/ MenuUpdate
    \/ MenuDelete
    \/ MenuSearch
    \/ \E err \in SaveErrs : MenuSave(err)
    \/ \E inp \in FormInputs, err \in SaveErrs : CreateSubmit(inp, err)
    \/ CreateCancel
    \/ \E inp \in FormInputs, err \in SaveErrs : UpdateSubmit(inp, err)
    \/ UpdateCancel
    \/ \E err \in SaveErrs : DeleteConfirm(err)
    \/ DeleteCancel
    \/ Up
    \/ Down
    \/ Home
    \/ End
    \/ \E err \in LoadErrs : Reload(err)

Spec == Init /\ [][Next]_vars

----------------------------------------------------------------------------
(* The codec alone: save_csv and load_csv applied to bounded inputs through *)
(* the Save and Reload buttons                                              *)

KHA == <<HASH, "a">>
KQA == <<QUOTE, "a">>

\* the keys and the value/tags texts the records of the codec inputs are made of
CodecKeys == { KA, KB, KBQ, KHA, KQA }
CodecTexts == { <<>>, <<COMMA>>, <<QUOTE>>, <<LF>>, <<"a", QUOTE>> }

CodecRecord ==
    { Record(k, v, <<>>) : k \in CodecKeys, v \in CodecTexts }
    \cup { Record(KA, <<>>, t) : t \in CodecTexts }

\* record sequences with non-empty, pairwise distinct keys
CodecRecords ==
    { <<>> } \cup { <<r>> : r \in CodecRecord }
    \cup { <<r1, r2>> : r1 \in { Record(KA, <<>>, <<>>), Record(KBQ, <<LF>>, <<>>) },
                        r2 \in { r \in CodecRecord : r.key \notin {KA, KBQ} } }

\* an unquoted line of n fields, the first one k and the others empty
CodecLine(k, n) == <<k>> \o [i \in 1..(n - 1) |-> COMMA] \o <<LF>>

\* the lines of the files of the codec inputs: rows of 3, 3, 2 and 4 fields,
\* a comment and a blank line
CodecLines ==
    { CodecLine("a", 3), CodecLine("b", 3), CodecLine("c", 2), CodecLine("d", 4),
      CodecLine(HASH, 3), <<LF>> }

\* the files of the codec inputs: the header and up to three lines
CodecFiles ==
    { File(HeaderLine) }
    \cup { File(HeaderLine \o l1) : l1 \in CodecLines }
    \cup { File(HeaderLine \o l1 \o l2) : l1 \in CodecLines, l2 \in CodecLines }
    \cup { File(HeaderLine \o l1 \o l2 \o l3) :
             l1 \in CodecLines, l2 \in {CodecLine("c", 2), CodecLine("d", 4)},
             l3 \in CodecLines }

\* a session holding the records recs with the file f at the default path
CodecInit ==
    \E recs \in CodecRecords, f \in CodecFiles \cup {Missing} :
        /\ recs = <<>> \/ f = Missing
        /\ fs = [n \in Filenames |-> IF n = DEFAULT_FILENAME THEN f ELSE Missing]
        /\ data = recs
        /\ filtered_data = recs
        /\ aliased = TRUE
        /\ current_line = FirstOrNone(recs)
        /\ mode = READ
        /\ search_str = <<>>
        /\ last_filename = DEFAULT_FILENAME
        /\ msgs = {}
        /\ submitted = <<>>
        /\ faults = 0
        /\ edits = 0

CodecNext ==
    \/ MenuSave("none")
    \/ Reload("none")

SpecCodec == CodecInit /\ [][CodecNext]_vars

----------------------------------------------------------------------------
(* The claims *)

\* the submits and buttons that write the file, by the message of the run
Written == {"Record added.", "Record updated.", "Record deleted.", "Saved!"}

\* C1: in every reachable state of a session the keys of the records of the
\* canonical set (data) are pairwise distinct, compared case-sensitively.
C1_KeysDistinct ==
    \A i, j \in 1..Len(data) : i # j => data[i].key # data[j].key

\* C2: after a confirmed delete the cursor is a valid index of the recomputed
\* filtered view, or -1 when that view is empty, whatever the search term.
C2_DeleteCursorValid ==
    "Record deleted." \in msgs =>
        IF filtered_data = <<>> THEN current_line = -1
        ELSE current_line \in 0..(Len(filtered_data) - 1)

\* the keys of recs are non-empty and pairwise distinct
ValidKeys(recs) ==
    /\ \A i \in 1..Len(recs) : recs[i].key # <<>>
    /\ \A i, j \in 1..Len(recs) : i # j => recs[i].key # recs[j].key

\* C3: round trip: for records with non-empty, pairwise distinct keys, a load
\* of the file that a save of them wrote returns the same records in the same
\* order.
C3_RoundTrip ==
    [][(ValidKeys(data) /\ fs[last_filename] = File(SavedText(data))
            /\ Reload("none"))
        => (data' = data)]_vars

\* C4: no partial commit: a create, update, delete or Save whose write fails
\* leaves the canonical set and the file as they were.
C4_NoPartialCommit ==
    [][(E_SAVE \in msgs' /\ msgs' \cap Written # {}) =>
            (data' = data /\ fs' = fs)]_vars

\* C5: a load of an existing path that fails with an I/O error keeps the
\* canonical set held before the load.
C5_LoadErrorKeepsData ==
    [][(E_LOAD \in msgs') => (data' = data)]_vars

\* a run in which the create form is submitted with inp
CreateSubmitOf(inp) == \E err \in SaveErrs : CreateSubmit(inp, err)

\* C6: a create submit whose key is empty or is the key of a record of the
\* canonical set changes neither the canonical set, nor the filtered view, nor
\* the cursor, nor the file.
C6_CreateRejected ==
    [][(\A inp \in FormInputs :
            (CreateSubmitOf(inp) /\ (inp.key = <<>> \/ inp.key \in Keys(data)))
            => (/\ data' = data
                /\ filtered_data' = filtered_data
                /\ current_line' = current_line
                /\ fs' = fs))]_vars

\* a create submit with the key of a record was refused
C6_Witness ==
    /\ mode = "create"
    /\ submitted = KA
    /\ KA \in Keys(data)
    /\ E_UNIQUE \in msgs

\* a run in which the update form is submitted with inp
UpdateSubmitOf(inp) == \E err \in SaveErrs : UpdateSubmit(inp, err)

\* the new key is empty, or differs from the selected record's key and is the
\* key of another record
UpdateMustReject(inp) ==
    \/ inp.key = <<>>
    \/ inp.key # SelectedKey /\ inp.key \in Keys(data)

\* C7: an update submit is rejected, with the canonical set and the file
\* unchanged, exactly when the new key is empty or differs from the selected
\* record's key and is the key of another record; otherwise the record is
\* replaced, so an update that keeps its own key is never a duplicate.
C7_UpdateRejectedExactly ==
    [][(\A inp \in FormInputs :
            UpdateSubmitOf(inp) =>
                IF UpdateMustReject(inp)
                THEN /\ msgs' \cap {E_EMPTY, E_UNIQUE} # {}
                     /\ data' = data
                     /\ fs' = fs
                ELSE /\ msgs' \cap {E_EMPTY, E_UNIQUE} = {}
                     /\ "Record updated." \in msgs'
                     /\ \E i \in 1..Len(data') :
                            data'[i] = Record(inp.key, inp.value, inp.tags))]_vars

\* an update submit that renames the selected record to the key of another
\* record was refused
C7_Witness ==
    /\ mode = "update"
    /\ current_line \in 0..(Len(filtered_data) - 1)
    /\ submitted = KA
    /\ SelectedKey # KA
    /\ KA \in Keys(data)
    /\ E_UNIQUE \in msgs

\* the records that the rows of exactly three fields give, in order
ThreeFieldRecords(rows) ==
    Bind(SelectSeq(rows, LAMBDA row : IsDataRow(row) /\ Len(row) = 3),
         LAMBDA kept : [i \in 1..Len(kept) |-> RowRecord(kept[i])])

\* C8: a load skips, with a warning, every non-comment, non-blank row whose
\* field count is not 3, and loads the rows of 3 fields around it in order.
C8_MalformedRowSkip ==
    [][(fs[last_filename].exists /\ Reload("none")) =>
            \E rows \in {ReaderRows(fs[last_filename].text)} :
                /\ data' = ThreeFieldRecords(rows)
                /\ (\E i \in 1..Len(rows) :
                        IsDataRow(rows[i]) /\ Len(rows[i]) # 3)
                    => W_MALFORMED \in msgs']_vars

\* C9: after every successful create, update, delete or Save the file at the
\* current filename is the header line followed by the rows of the records of
\* the canonical set, in order, and nothing else.
C9_WholeFileRewrite ==
    (msgs \cap Written # {} /\ E_SAVE \notin msgs) =>
        fs[last_filename] = File(SavedText(data))

\* a delete was saved over a longer file
C9_Witness ==
    /\ "Record deleted." \in msgs
    /\ E_SAVE \notin msgs
    /\ Len(data) = 1
    /\ fs[last_filename] = File(SavedText(data))

\* a run that loads the file fn and meets no I/O error
LoadOf(fn) ==
    \/ FilenameChange(fn, "none")
    \/ fn = last_filename /\ Reload("none")

\* C10: a load of a path that does not exist creates a file holding the header
\* line only and returns no record, without an error; a load of that file
\* returns no record and leaves the file as it is.
C10_BootstrapIdempotent ==
    [][(\A fn \in Filenames :
            ((~fs[fn].exists \/ fs[fn] = File(HeaderLine)) /\ LoadOf(fn)) =>
                /\ ~fs[fn].exists =>
                        /\ fs'[fn] = File(HeaderLine)
                        /\ data' = <<>>
                        /\ msgs' \cap {E_LOAD, W_MALFORMED} = {}
                /\ fs[fn] = File(HeaderLine) =>
                        /\ fs' = fs
                        /\ data' = <<>>
                        /\ msgs' \cap {E_LOAD, W_MALFORMED} = {})]_vars

\* the missing file was created by a load and then loaded again
C10_Witness ==
    /\ last_filename = OTHER_FILENAME
    /\ fs[OTHER_FILENAME] = File(HeaderLine)
    /\ data = <<>>
    /\ "Data reloaded." \in msgs

\* the record sequence that the text of a file decodes to
Decoded(text) == RowsData(ReaderRows(text))

\* C11: right after a Reload that met no I/O error the canonical set is
\* exactly the record sequence decoded from the file at the current filename,
\* the filtered view is the search term applied to it, and the mode is
\* read/search.
C11_ReloadReplaces ==
    ("Data reloaded." \in msgs /\ E_LOAD \notin msgs) =>
        /\ data = Decoded(fs[last_filename].text)
        /\ filtered_data = search_data(data, search_str)
        /\ mode = READ

\* a Reload under a search term, after an edit, brought records back
C11_Witness ==
    /\ "Data reloaded." \in msgs
    /\ E_LOAD \notin msgs
    /\ search_str # <<>>
    /\ edits = 1
    /\ data # <<>>

----------------------------------------------------------------------------
(* The filter alone: search_data applied to bounded inputs through the     *)
(* Search box                                                              *)

\* the texts the fields of the filter inputs are made of, in both cases
SearchTexts == { <<>>, <<"a">>, <<"A">>, <<"a", "B">>, <<"b">> }
SearchKeys == { <<"a">>, <<"A", "b">>, <<"x">> }

SearchRecord ==
    { Record(k, v, t) : k \in SearchKeys, v \in SearchTexts, t \in {<<>>, <<"B">>} }

\* the canonical sets the filter is applied to
SearchRecords ==
    { <<>> } \cup { <<r>> : r \in SearchRecord }
    \cup { <<r1, r2>> : r1 \in { Record(<<"x">>, <<"a", "B">>, <<>>),
                               Record(<<"A", "b">>, <<>>, <<>>),
                               Record(<<"a">>, <<"b">>, <<"B">>) },
                        r2 \in SearchRecord }

\* what the user types into the Search box
SearchTerms == { <<>>, <<"a">>, <<"A">>, <<"A", "b">>, <<"B">>, <<"x">> }

\* a session holding the records recs, with nothing typed into the Search box
SearchInit ==
    \E recs \in SearchRecords :
        /\ fs = [n \in Filenames |-> IF n = DEFAULT_FILENAME
                                     THEN File(SavedText(recs)) ELSE Missing]
        /\ data = recs
        /\ filtered_data = recs
        /\ aliased = TRUE
        /\ current_line = FirstOrNone(recs)
        /\ mode = READ
        /\ search_str = <<>>
        /\ last_filename = DEFAULT_FILENAME
        /\ msgs = {}
        /\ submitted = <<>>
        /\ faults = 0
        /\ edits = 0

SearchNext == \E s \in SearchTerms : SearchChange(s)

SpecSearch == SearchInit /\ [][SearchNext]_vars

\* needle is a run of consecutive characters of hay
IsSubstring(needle, hay) ==
    \/ needle = <<>>
    \/ \E i \in 1..Len(hay), j \in 1..Len(hay) : SubSeq(hay, i, j) = needle

\* the lower-cased term is a substring of the lower-cased key, value or tags
TermInSomeField(r, term) ==
    \/ IsSubstring(Lower(term), Lower(r.key))
    \/ IsSubstring(Lower(term), Lower(r.value))
    \/ IsSubstring(Lower(term), Lower(r.tags))

\* C12: the filtered view that search_data returns is exactly the records for
\* which the lower-cased term is a substring of the lower-cased key, value or
\* tags, and for the empty term it is all the records.
C12_SearchExact ==
    /\ filtered_data = SelectSeq(data, LAMBDA r : TermInSomeField(r, search_str))
    /\ search_str = <<>> => filtered_data = data

\* an upper-case term found one of two records by a field in another case
C12_Witness ==
    /\ search_str = <<"A", "b">>
    /\ Len(data) = 2
    /\ filtered_data = <<Record(<<"x">>, <<"a", "B">>, <<>>)>>

\* sub is what remains of full when some of its elements are left out
RECURSIVE IsSubsequence(_, _)
IsSubsequence(sub, full) ==
    IF sub = <<>> THEN TRUE
    ELSE IF full = <<>> THEN FALSE
    ELSE IF Head(sub) = Head(full) THEN IsSubsequence(Tail(sub), Tail(full))
    ELSE IsSubsequence(sub, Tail(full))

\* C13: a search with any term leaves the canonical record sequence unchanged
\* and gives a filtered view that is a subsequence of it, in the same order.
C13_FilterKeepsData ==
    [][(\A s \in SearchTerms :
            SearchChange(s) =>
                /\ data' = data
                /\ fs' = fs
                /\ IsSubsequence(filtered_data', data))]_vars

\* a term kept both records of a set of two, in their order
C13_Witness ==
    /\ search_str = <<"B">>
    /\ Len(data) = 2
    /\ data[1] # data[2]
    /\ filtered_data = data

\* the position at which the line holding the character at position i starts
LineStartOf(text, i) ==
    CHOOSE j \in 1..i :
        /\ j = 1 \/ EndsLine(text, j - 1)
        /\ \A k \in (j + 1)..i : ~EndsLine(text, k - 1)

\* the text without its lines that begin with '#'
DropHashLines(text) ==
    Bind(SelectSeq([i \in 1..Len(text) |-> i],
                   LAMBDA i : text[LineStartOf(text, i)] # HASH),
         LAMBDA kept : [n \in 1..Len(kept) |-> text[kept[n]]])

\* the records of the rows of three fields on the lines that do not begin
\* with '#', in file order
RecordsOfPlainLines(text) ==
    Bind(SelectSeq(ReaderRows(DropHashLines(text)), LAMBDA row : Len(row) = 3),
         LAMBDA kept : [i \in 1..Len(kept) |-> RowRecord(kept[i])])

\* every row of the text is blank or has three fields
OnlyThreeFieldRows(text) ==
    \A row \in {ReaderRows(text)[i] : i \in 1..Len(ReaderRows(text))} :
        Len(row) \in {0, 3}

\* C14: a load skips every line that begins with '#', wherever it is, and
\* loads every valid row of three fields on a line that does not begin with
\* '#': the loaded records are exactly those rows, in file order.
C14_CommentLinesOnly ==
    [][(/\ fs[last_filename].exists
        /\ OnlyThreeFieldRows(fs[last_filename].text)
        /\ Reload("none"))
       => (data' = RecordsOfPlainLines(fs[last_filename].text))]_vars

\* the positions in the canonical set at which the selected record may stand:
\* where a record equal to it stands, and, when the view is the whole
\* set, at the cursor
SelectedPositions ==
    { p \in 1..Len(data) :
        /\ data[p] = filtered_data[current_line + 1]
        /\ filtered_data = data => p = current_line + 1 }

\* recs without the record at position p
WithoutPosition(recs, p) ==
    [i \in 1..(Len(recs) - 1) |-> IF i < p THEN recs[i] ELSE recs[i + 1]]

\* C15: a successful update replaces the record selected in the filtered view
\* by the submitted one, at its position in the canonical set, and changes
\* nothing else of the canonical set.
C15_UpdateReplacesSelected ==
    [][(\A inp \in FormInputs :
            (UpdateSubmitOf(inp) /\ "Record updated." \in msgs') =>
                \E p \in SelectedPositions :
                    data' = [data EXCEPT ![p] =
                                Record(inp.key, inp.value, inp.tags)])]_vars

\* a run in which the delete is confirmed
DeleteConfirmOf == \E err \in SaveErrs : DeleteConfirm(err)

\* C16: a confirmed delete removes exactly one record of the canonical set,
\* the one selected in the filtered view; the others stay, in their order.
C16_DeleteRemovesOne ==
    [][DeleteConfirmOf =>
            \E p \in SelectedPositions : data' = WithoutPosition(data, p)]_vars

\* C17: after every interaction the cursor is -1 if the filtered view is
\* empty and an index of the filtered view otherwise.
C17_CursorValid ==
    IF filtered_data = <<>> THEN current_line = -1
    ELSE current_line >= 0 /\ current_line < Len(filtered_data)

\* C18: after every interaction the filtered view of the session is
\* search_data applied to the canonical set and the current search term, also
\* after a filename change under a non-empty search term.
C18_ViewIsSearch ==
    filtered_data = search_data(data, search_str)

\* a run in which a form or the delete is cancelled
CancelOf == CreateCancel \/ UpdateCancel \/ DeleteCancel

\* C19: the mode is always one of read/search, create, update, delete; every
\* accepted create or update submit, confirmed delete, cancel, Save and Reload
\* leaves the mode read/search, and a rejected create or update submit leaves
\* the mode as it was.
C19_ModeLifecycle ==
    [][(/\ mode' \in Modes
        /\ \A inp \in FormInputs :
            /\ CreateSubmitOf(inp) =>
                    IF inp.key = <<>> \/ inp.key \in Keys(data)
                    THEN mode' = mode ELSE mode' = READ
            /\ UpdateSubmitOf(inp) =>
                    IF UpdateMustReject(inp) THEN mode' = mode ELSE mode' = READ
        /\ mode' = READ \/ ~DeleteConfirmOf
        /\ mode' = READ \/ ~CancelOf
        /\ mode' = READ \/ ~(\E err \in SaveErrs : MenuSave(err))
        /\ mode' = READ \/ ~(\E err \in LoadErrs : Reload(err)))]_vars

\* an update submit with an empty key was refused and the form stays open
C19_Witness ==
    /\ mode = "update"
    /\ submitted = <<>>
    /\ E_EMPTY \in msgs

====
